---- MODULE Spec2Model ----
(***************************************************************************)
(* A model of src/src/DRS.js: one DRS handle over one archive file.  The   *)
(* handle's fields, the table objects it (and pending closures) refer to,  *)
(* the archive on disk and every API call in flight are the state; each    *)
(* API call and each asynchronous completion (fs callback, timer, stream   *)
(* event) is one action, i.e. one turn of the event loop.                  *)
(***************************************************************************)
EXTENDS Integers, Sequences, FiniteSets, TLC

(* ------------------------------ bounds -------------------------------- *)
\* API calls issued on the handle in one behaviour.
MaxCalls == 2

(* ------------------------- program constants -------------------------- *)
HEADER_SIZE_AOE == 64
HEADER_SIZE_SWGB == 84
TABLE_META_SIZE == 12
FILE_META_SIZE == 12

\* 'Copyright (c) 2001 LucasArts Entertainment Company LLC', as char codes.
COPYRIGHT_SWGB ==
  << 67, 111, 112, 121, 114, 105, 103, 104, 116, 32, 40, 99, 41, 32,
     50, 48, 48, 49, 32, 76, 117, 99, 97, 115, 65, 114, 116, 115,
     32, 69, 110, 116, 101, 114, 116, 97, 105, 110, 109, 101, 110, 116,
     32, 67, 111, 109, 112, 97, 110, 121, 32, 76, 76, 67 >>

\* null / undefined for the numeric fields (fd, offset, size, numTables).
Null == -1
\* A byte of a Buffer.alloc() buffer that no read has filled.
ZeroByte == 0
\* A byte of the copyright, version and type text of a base-variant header.
MetaByte == 1

(* ------------------------------ helpers ------------------------------- *)
RECURSIVE SumSeq(_)
SumSeq(s) == IF s = <<>> THEN 0 ELSE Head(s) + SumSeq(Tail(s))

RECURSIVE Flatten(_)
Flatten(ss) == IF ss = <<>> THEN <<>> ELSE Head(ss) \o Flatten(Tail(ss))

Min(a, b) == IF a < b THEN a ELSE b

(* --------------------------- table-tag codec -------------------------- *)
\* The bit operators of the codec on numbers in the int32 range.
\* num & 0xFF
AndFF(num) == num % 256
\* num >> 8 (the arithmetic shift of an int32)
Shr8(num) == num \div 256
\* num << 8 (an int32: the top byte is shifted out, bit 23 becomes the sign)
Shl8(num) ==
  LET low == num % 16777216
  IN  (IF low >= 8388608 THEN low - 16777216 ELSE low) * 256

\* parseTableType that appends each character instead of prepending it.
parseTableTypeAppending(num) ==
  LET n1 == Shr8(num)
      n2 == Shr8(n1)
      n3 == Shr8(n2)
  IN  <<AndFF(num), AndFF(n1), AndFF(n2), AndFF(n3)>>

\* A tag is the sequence of the char codes of its four characters.
parseTableType(num) ==
  LET n1 == Shr8(num)
      n2 == Shr8(n1)
      n3 == Shr8(n2)
  IN  <<AndFF(n3), AndFF(n2), AndFF(n1), AndFF(num)>>

serializeTableType(str) ==
  LET n1 == Shl8(0) + str[1]
      n2 == Shl8(n1) + str[2]
      n3 == Shl8(n2) + str[3]
  IN  Shl8(n3) + str[4]

\* 'slp ', 'wav ', 'bina'
TagSlp == <<115, 108, 112, 32>>
TagWav == <<119, 97, 118, 32>>
TagBina == <<98, 105, 110, 97>>

(* --------------------------- the archive file ------------------------- *)
\* A well-formed archive: header, table directory, file directory, then the
\* payloads back to back.  shape is a sequence of [ext, datas], datas the
\* payloads (byte sequences) of the table's files with their ids.
headerSize(swgb) == IF swgb THEN HEADER_SIZE_SWGB ELSE HEADER_SIZE_AOE

ShapeFileCount(shape) == SumSeq([i \in 1..Len(shape) |-> Len(shape[i].files)])

ShapeFlat(shape) == Flatten([i \in 1..Len(shape) |-> shape[i].files])

FirstFileOffset(swgb, shape) ==
  headerSize(swgb) + TABLE_META_SIZE * Len(shape) + FILE_META_SIZE * ShapeFileCount(shape)

\* Offset of the k-th payload (in table-then-entry order).
PayloadOffset(swgb, shape, k) ==
  LET flat == ShapeFlat(shape)
  IN  FirstFileOffset(swgb, shape) + SumSeq([j \in 1..(k - 1) |-> Len(flat[j].data)])

FilesBefore(shape, t) == SumSeq([i \in 1..(t - 1) |-> Len(shape[i].files)])

\* The header's bytes before numTables: copyright, fileVersion, fileType.
\* The larger variant carries the magic string, zero padded.
HeadBytes(swgb) ==
  IF swgb
    THEN [i \in 1..(HEADER_SIZE_SWGB - 8) |->
            IF i <= Len(COPYRIGHT_SWGB) THEN COPYRIGHT_SWGB[i] ELSE ZeroByte]
    ELSE [i \in 1..(HEADER_SIZE_AOE - 8) |-> MetaByte]

MkLayout(swgb, shape) ==
  [ isSwgb |-> swgb,
    head |-> HeadBytes(swgb),
    numTables |-> Len(shape),
    tables |-> [t \in 1..Len(shape) |->
       [ tag |-> shape[t].ext,
         ext |-> serializeTableType(shape[t].ext),
         offset |-> headerSize(swgb) + TABLE_META_SIZE * Len(shape)
                      + FILE_META_SIZE * FilesBefore(shape, t),
         numFiles |-> Len(shape[t].files),
         files |-> [f \in 1..Len(shape[t].files) |->
            [ id |-> shape[t].files[f].id,
              offset |-> PayloadOffset(swgb, shape, FilesBefore(shape, t) + f),
              size |-> Len(shape[t].files[f].data),
              data |-> shape[t].files[f].data ]] ]],
    length |-> FirstFileOffset(swgb, shape)
                 + SumSeq([k \in 1..Len(ShapeFlat(shape)) |-> Len(ShapeFlat(shape)[k].data)]) ]

\* The entries of archive a, table after table.
FlatFiles(a) == Flatten([t \in 1..Len(a.tables) |-> a.tables[t].files])

\* Byte k (0 the lowest) of the little-endian int32 v.
IntByte(v, k) ==
  (IF k = 0 THEN v ELSE IF k = 1 THEN v \div 256
   ELSE IF k = 2 THEN v \div 65536 ELSE v \div 16777216) % 256

\* Where the table directory, the file directory and the payloads start.
TableDirStart(a) == headerSize(a.isSwgb)
FileDirStart(a) == TableDirStart(a) + TABLE_META_SIZE * a.numTables
PayloadStart(a) == FileDirStart(a) + FILE_META_SIZE * Len(FlatFiles(a))

\* The three int32 fields of the r-th 12-byte record of a directory.
TableRecord(a, r) == <<a.tables[r].ext, a.tables[r].offset, a.tables[r].numFiles>>
FileRecord(a, r) == <<FlatFiles(a)[r].id, FlatFiles(a)[r].offset, FlatFiles(a)[r].size>>

\* The byte archive a holds at position p.
LayoutByte(a, p) ==
  IF p < TableDirStart(a) - 8 THEN a.head[p + 1]
  ELSE IF p < TableDirStart(a) - 4 THEN IntByte(a.numTables, p - (TableDirStart(a) - 8))
  ELSE IF p < TableDirStart(a) THEN IntByte(PayloadStart(a), p - (TableDirStart(a) - 4))
  ELSE IF p < FileDirStart(a)
    THEN LET q == p - TableDirStart(a)
         IN  IntByte(TableRecord(a, q \div 12 + 1)[(q % 12) \div 4 + 1], q % 4)
  ELSE IF p < PayloadStart(a)
    THEN LET q == p - FileDirStart(a)
         IN  IntByte(FileRecord(a, q \div 12 + 1)[(q % 12) \div 4 + 1], q % 4)
  ELSE LET flat == FlatFiles(a)
           in == {k \in 1..Len(flat) :
                    flat[k].offset <= p /\ p < flat[k].offset + flat[k].size}
       IN  IF in = {} THEN ZeroByte
           ELSE LET k == CHOOSE k \in in : TRUE
                IN  flat[k].data[p - flat[k].offset + 1]

\* The archive with its bytes: what the file holds, first byte to last.
WithBytes(a) ==
  [ isSwgb |-> a.isSwgb, head |-> a.head, numTables |-> a.numTables,
    tables |-> a.tables, length |-> a.length,
    bytes |-> [i \in 1..a.length |-> LayoutByte(a, i - 1)] ]

MkArchive(swgb, shape) == WithBytes(MkLayout(swgb, shape))

Shapes ==
  { <<>>,
    << [ext |-> TagSlp, files |-> << [id |-> 1, data |-> <<11, 12>>] >>] >>,
    << [ext |-> TagSlp, files |-> << [id |-> 1, data |-> <<11>>],
                                      [id |-> 2, data |-> <<>>] >>],
       [ext |-> TagBina, files |-> << [id |-> 1, data |-> <<21, 22>>] >>] >> }

ShapeOne == << [ext |-> TagSlp, files |-> << [id |-> 1, data |-> <<11, 12>>] >>] >>

Archives == {MkArchive(FALSE, shape) : shape \in Shapes} \cup {MkArchive(TRUE, ShapeOne)}

\* Files that end early: inside the header (30 bytes), inside the table
\* directory (70) and inside the file directory (80) of a one-entry archive.
Truncate(archive, n) == [archive EXCEPT !.length = n, !.bytes = SubSeq(@, 1, n)]

ShortArchives == {Truncate(MkArchive(FALSE, ShapeOne), n) : n \in {30, 70, 80}}

\* 'JASC-PAL', and the same eight bytes with the high bit of the first set.
JascPal == <<74, 65, 83, 67, 45, 80, 65, 76>>
JascPalHigh == <<202, 65, 83, 67, 45, 80, 65, 76>>

\* Archives whose entries start like a palette, under each kind of tag.
ShapePalettes ==
  << [ext |-> TagBina, files |-> << [id |-> 1, data |-> JascPal],
                                     [id |-> 2, data |-> JascPalHigh] >>] >>

ShapeTagged ==
  << [ext |-> TagSlp, files |-> << [id |-> 1, data |-> JascPal] >>],
     [ext |-> TagWav, files |-> << [id |-> 2, data |-> JascPal] >>] >>

\* A base-variant archive whose first bytes spell the magic string but for
\* one byte: its high bit set (at = 1), or another letter (at = 54).
NearMagic(at, byte) ==
  WithBytes([MkLayout(FALSE, ShapeOne) EXCEPT
     !.head = [i \in 1..(HEADER_SIZE_AOE - 8) |->
                 IF i = at THEN byte
                 ELSE IF i <= Len(COPYRIGHT_SWGB) THEN COPYRIGHT_SWGB[i] ELSE ZeroByte]])

OddArchives ==
  { MkArchive(FALSE, ShapePalettes), MkArchive(FALSE, ShapeTagged),
    NearMagic(1, 195), NearMagic(54, 68) }

(* ------------------------------- state -------------------------------- *)
VARIABLES
  disk,       \* the archive file (never written by this program)
  fpos,       \* fpos[d]: the file position of open descriptor d
  heap,       \* heap[o]: the table object o (objects are shared by reference)
  tables,     \* drs.tables: the sequence of table objects of the handle
  numTables,  \* drs.numTables (Null while undefined)
  fd,         \* drs.fd
  isSWGB,     \* drs.isSWGB: "null", "true" or "false"
  calls,      \* the API calls issued so far, each with its closure state
  crashed     \* an exception escaped from an asynchronous callback

vars == <<disk, fpos, heap, tables, numTables, fd, isSWGB, calls, crashed>>

\* The table objects of drs.tables, in order.
Tabs == [i \in 1..Len(tables) |-> heap[tables[i]]]

\* No entry (getFile's null, a closure's unset file).
NoFile == [id |-> Null, offset |-> Null, size |-> Null, type |-> <<>>,
           buffer |-> <<>>, hasBuffer |-> FALSE, obj |-> 0]

\* newFile(type, id); obj names the object (the call that created it).
newFile(type, id, c) ==
  [id |-> id, offset |-> Null, size |-> Null, type |-> type,
   buffer |-> <<>>, hasBuffer |-> FALSE, obj |-> c]

(* ---------------------------- pure queries ---------------------------- *)
getFileCount(tabs) == SumSeq([i \in 1..Len(tabs) |-> Len(tabs[i].files)])

getFiles(tabs) == Flatten([i \in 1..Len(tabs) |-> tabs[i].files])

getSize(tabs, swgb) ==
  LET hs == IF swgb = "true" THEN HEADER_SIZE_SWGB ELSE HEADER_SIZE_AOE
      fs == getFiles(tabs)
  IN  hs + TABLE_META_SIZE * Len(tabs) + FILE_META_SIZE * getFileCount(tabs)
         + SumSeq([k \in 1..Len(fs) |-> fs[k].size])

\* The loop bound of getFile's inner loop.
getFileBound(table) == table.numFiles

\* getFile(id): [thrown, file].  The inner loop runs i over 0..numFiles-1 and
\* reads table.files[i].id, a TypeError once i passes the end of files.
RECURSIVE getFileFrom(_, _, _)
getFileFrom(tabs, id, tableI) ==
  IF tableI > Len(tabs) THEN [thrown |-> FALSE, file |-> NoFile]
  ELSE LET table == tabs[tableI]
           n == Min(getFileBound(table), Len(table.files))
           hits == {i \in 1..n : table.files[i].id = id}
       IN  IF hits # {}
             THEN [thrown |-> FALSE,
                   file |-> table.files[CHOOSE i \in hits : \A j \in hits : i <= j]]
           ELSE IF getFileBound(table) > Len(table.files)
             THEN [thrown |-> TRUE, file |-> NoFile]
           ELSE getFileFrom(tabs, id, tableI + 1)

getFile(tabs, id) == getFileFrom(tabs, id, 1)

\* getTable's loop: the index held by `table` when the loop ends (0: undefined).
\* The loop assigns table = drs.tables[i] before it tests the tag, so after a
\* loop without a match `table` is the last table.
getTableSlot(tabs, type) ==
  LET hits == {i \in 1..Len(tabs) : tabs[i].ext = type}
  IN  IF hits # {} THEN CHOOSE i \in hits : \A j \in hits : i <= j
      ELSE Len(tabs)

\* The table object getTable creates when `table` is undefined.
newTable(type) == [ext |-> type, offset |-> Null, numFiles |-> 0, files |-> <<>>]

(* ------------------------------ the file ------------------------------ *)
DiskFlat == FlatFiles(disk)

\* buf.readInt32LE(offset)
readInt32LE(buf, offset) ==
  LET top == buf[offset + 4]
  IN  buf[offset + 1] + 256 * buf[offset + 2] + 65536 * buf[offset + 3]
        + 16777216 * (IF top >= 128 THEN top - 256 ELSE top)

\* The byte at position p, for p inside the file.
ByteAt(p) == disk.bytes[p + 1]

\* fs.read into Buffer.alloc(length) at `position`: the buffer handed to the
\* callback, zero beyond what the file holds.
ReadBuf(length, position) ==
  [i \in 1..length |->
     IF position + i - 1 < disk.length THEN ByteAt(position + i - 1) ELSE ZeroByte]

BytesRead(length, position) ==
  IF position >= disk.length THEN 0 ELSE Min(length, disk.length - position)

(* ------------------------------ API calls ----------------------------- *)
\* What callers pass in.
Ids == {1, 2}
\* (type, id) of the entries callers add.
PutArgs == {<<TagSlp, 2>>, <<TagBina, 1>>}
\* A Buffer is one chunk; a stream delivers its chunks one by one.
BufferInputs == { << <<91, 92>> >> }
StreamInputs == { << <<93>>, <<94>> >> }

\* buf.slice(0, n).toString('ascii'): the char codes, the high bit of every
\* byte cleared.
AsciiSlice(buf, n) == [i \in 1..Min(n, Len(buf)) |-> buf[i] % 128]

\* buf.slice(0, 8).toString('ascii') === 'JASC-PAL'
IsJascPal(buf) == AsciiSlice(buf, 8) = JascPal

\* The decoder readFile constructs.
Decoder(type, buf) ==
  IF type = TagSlp THEN "SLPFile"
  ELSE IF type = TagWav THEN "WAVFile"
  ELSE IF type = TagBina /\ IsJascPal(buf) THEN "PaletteFile"
  ELSE "DRSFile"

isBuffer(kind) == kind = "buffer"

\* isStream that takes any value that is not a Buffer for a stream.
isStreamLoose(kind) == kind # "buffer"

isStream(kind) == kind = "stream"

\* One API call and the state of its closures.
\*   pc: "open" "header" "tableInfo" "tables"  a directory load's pending fs call
\*       "fileRead"   readFile's fs.read is pending
\*       "timer"      putFile's setTimeout is pending
\*       "drain"      a payload stream is being consumed
\*       "streaming"  createReadStream pumps the entry's bytes
\*       "done" "thrown" (exception to the caller) "crashed" (uncaught)
NewCall(op, id, type, kind, chunks) ==
  [op |-> op, id |-> id, type |-> type, kind |-> kind, chunks |-> chunks,
   got |-> <<>>, pc |-> "new", fd |-> Null, fileOffset |-> 0, nreq |-> 0,
   table |-> 0, file |-> NoFile, cbs |-> 0, err |-> "", cls |-> "",
   buf |-> <<>>, events |-> <<>>]

LoadPcs == {"open", "header", "tableInfo", "tables"}
PendingPcs == LoadPcs \cup {"fileRead", "timer", "drain", "streaming"}

\* cb(err) / cb(null, ...): the caller's callback runs once more.
CbErr(call, e) == [call EXCEPT !.pc = "done", !.cbs = @ + 1, !.err = e]
CbOk(call) == [call EXCEPT !.pc = "done", !.cbs = @ + 1]

\* An exception: to the caller when the call itself is on the stack (sync),
\* uncaught when a callback of the event loop is.
Throw(call, sync, e) ==
  [call EXCEPT !.pc = IF sync THEN "thrown" ELSE "crashed", !.err = e]

\* read(cb): open first when no descriptor is held, else issue the header read.
ReadStart(call, hfd) ==
  IF hfd = Null THEN [call EXCEPT !.pc = "open"]
  ELSE [call EXCEPT !.pc = "header", !.fd = hfd, !.fileOffset = 0]

\* Does readFile / createReadStream load the directory first?
NeedsLoad(nt) == nt = Null \/ nt = 0

\* readFile(id, cb) from its first line, on handle state (nt, tabs, hfd).
ReadFileStep(call, nt, tabs, hfd, sync) ==
  IF NeedsLoad(nt) THEN ReadStart(call, hfd)
  ELSE LET g == getFile(tabs, call.id)
       IN  IF g.thrown THEN Throw(call, sync, "TypeError")
           ELSE IF g.file = NoFile THEN CbErr(call, "NotFound")
           \* fs.read(null, ...) throws: fd must be a number
           ELSE IF hfd = Null THEN Throw([call EXCEPT !.file = g.file], sync, "TypeError")
           ELSE [call EXCEPT !.pc = "fileRead", !.fd = hfd, !.file = g.file]

\* The last byte position createReadStream asks for.
StreamEnd(file) == file.offset + file.size - 1

\* onread() of createReadStream, on handle state (tabs, hfd).  In the
\* synchronous path nobody holds the stream yet, so emit('error') finds no
\* listener and throws its error; later the caller has attached one.
OnReadStep(call, tabs, hfd, sync) ==
  LET g == getFile(tabs, call.id)
  IN  IF g.thrown THEN Throw(call, sync, "TypeError")
      ELSE IF g.file = NoFile
        THEN IF sync
               THEN Throw([call EXCEPT !.events = Append(@, "error")], sync, "NotFound")
               \* emit('error'), emit('meta', null), then null.buffer throws
               ELSE Throw([call EXCEPT !.events = @ \o <<"error", "meta">>],
                          sync, "TypeError")
      ELSE IF g.file.hasBuffer
        THEN [call EXCEPT !.events = Append(@, "meta"), !.file = g.file,
                          !.pc = "streaming", !.buf = g.file.buffer]
      \* fs.createReadStream rejects a range whose start is past its end
      ELSE IF g.file.offset > StreamEnd(g.file)
        THEN Throw([call EXCEPT !.events = Append(@, "meta"), !.file = g.file],
                   sync, "RangeError")
      ELSE [call EXCEPT !.events = Append(@, "meta"), !.file = g.file,
                        !.pc = "streaming", !.fd = hfd,
                        !.buf = ReadBuf(BytesRead(StreamEnd(g.file) - g.file.offset + 1,
                                                  g.file.offset), g.file.offset)]

\* The load callback of readFile without its `else`: after cb(e) the lookup
\* is tried anyway.
LoadDoneRetries(call, e, nt, tabs, hfd) ==
  IF call.op = "read" THEN (IF e = "" THEN CbOk(call) ELSE CbErr(call, e))
  ELSE IF call.op = "readFile"
    THEN (IF e = "" THEN ReadFileStep(call, nt, tabs, hfd, FALSE)
          ELSE ReadFileStep([call EXCEPT !.cbs = @ + 1, !.err = e], nt, tabs, hfd, FALSE))
  ELSE (IF e = "" THEN OnReadStep(call, tabs, hfd, FALSE)
        ELSE [call EXCEPT !.pc = "done", !.err = e, !.events = Append(@, "error")])

\* The callback a directory load was started with, called with (e).
LoadDone(call, e, nt, tabs, hfd) ==
  IF call.op = "read" THEN (IF e = "" THEN CbOk(call) ELSE CbErr(call, e))
  ELSE IF call.op = "readFile"
    THEN (IF e = "" THEN ReadFileStep(call, nt, tabs, hfd, FALSE) ELSE CbErr(call, e))
  ELSE (IF e = "" THEN OnReadStep(call, tabs, hfd, FALSE)
        ELSE [call EXCEPT !.pc = "done", !.err = e, !.events = Append(@, "error")])

(* -------------------------------- Init -------------------------------- *)
Init ==
  /\ disk \in Archives
  /\ fpos = <<>>
  /\ heap = <<>>
  /\ tables = <<>>
  /\ numTables = Null
  /\ fd = Null
  /\ isSWGB = "null"
  /\ calls = <<>>
  /\ crashed = FALSE

CanCall == ~crashed /\ Len(calls) < MaxCalls

\* The call's record becomes nc; an uncaught exception ends the process.
SetCall(c, nc) ==
  /\ calls' = [calls EXCEPT ![c] = nc]
  /\ crashed' = (nc.pc = "crashed")

AddCall(nc) ==
  /\ calls' = Append(calls, nc)
  /\ crashed' = crashed

(* ------------------------ the API, called by users --------------------- *)
read ==
  /\ CanCall
  /\ AddCall(ReadStart(NewCall("read", 0, <<>>, "none", <<>>), fd))
  /\ UNCHANGED <<disk, fpos, heap, tables, numTables, fd, isSWGB>>

readFile ==
  /\ CanCall
  /\ \E id \in Ids :
       AddCall(ReadFileStep(NewCall("readFile", id, <<>>, "none", <<>>),
                            numTables, Tabs, fd, TRUE))
  /\ UNCHANGED <<disk, fpos, heap, tables, numTables, fd, isSWGB>>

createReadStream ==
  /\ CanCall
  /\ \E id \in Ids :
       LET call == NewCall("createReadStream", id, <<>>, "none", <<>>)
       IN  AddCall(IF NeedsLoad(numTables) THEN ReadStart(call, fd)
                   ELSE OnReadStep(call, Tabs, fd, TRUE))
  /\ UNCHANGED <<disk, fpos, heap, tables, numTables, fd, isSWGB>>

\* getTable(drs, type): the handle after the call; the table it returns is
\* GetTableRef.
GetTableCreates(type) == getTableSlot(Tabs, type) = 0

GetTableRef(type) ==
  IF GetTableCreates(type) THEN Len(heap) + 1 ELSE tables[getTableSlot(Tabs, type)]

getTable(type) ==
  IF GetTableCreates(type)
    THEN /\ heap' = Append(heap, newTable(type))
         /\ tables' = Append(tables, Len(heap) + 1)
         /\ numTables' = Len(tables) + 1
    ELSE UNCHANGED <<heap, tables, numTables>>

\* What putFile does with its payload once file, table and onbuffer exist.
PutDispatch(call) ==
  IF isBuffer(call.kind) THEN [call EXCEPT !.pc = "timer"]
  ELSE IF isStream(call.kind) THEN [call EXCEPT !.pc = "drain"]
  ELSE Throw(call, TRUE, "TypeError")

putFile ==
  /\ CanCall
  /\ \E arg \in PutArgs,
        input \in ({"buffer"} \X BufferInputs) \cup ({"stream"} \X StreamInputs)
                    \cup {<<"invalid", <<>> >>} :
       LET type == arg[1]
           id == arg[2]
           c == Len(calls) + 1
           call == [NewCall("putFile", id, type, input[1], input[2])
                      EXCEPT !.file = newFile(type, id, c), !.table = GetTableRef(type)]
       IN  /\ getTable(type)
           /\ AddCall(PutDispatch(call))
  /\ UNCHANGED <<disk, fpos, fd, isSWGB>>

createWriteStream ==
  /\ CanCall
  /\ \E arg \in PutArgs, chunks \in StreamInputs :
       LET type == arg[1]
           id == arg[2]
           c == Len(calls) + 1
           call == [NewCall("createWriteStream", id, type, "stream", chunks)
                      EXCEPT !.file = newFile(type, id, c), !.table = GetTableRef(type)]
       IN  /\ getTable(type)
           /\ AddCall([call EXCEPT !.pc = "drain"])
  /\ UNCHANGED <<disk, fpos, fd, isSWGB>>

(* --------------------- completions, one per callback ------------------- *)
Pending(c, pc) == ~crashed /\ c \in 1..Len(calls) /\ calls[c].pc = pc

\* fs.open's callback in DRS.prototype.open, then read's own open callback.
onOpen(c) ==
  /\ Pending(c, "open")
  /\ \/ /\ fpos' = Append(fpos, 0)
        /\ fd' = Len(fpos) + 1
        /\ SetCall(c, ReadStart(calls[c], Len(fpos) + 1))
     \/ /\ SetCall(c, LoadDone(calls[c], "EIO", numTables, Tabs, fd))
        /\ UNCHANGED <<fpos, fd>>
  /\ UNCHANGED <<disk, heap, tables, numTables, isSWGB>>

\* The buffer the header read hands to onHeader.
HeaderBuf == ReadBuf(HEADER_SIZE_SWGB, 0)

\* The variant the probe of the copyright field selects.
ProbeSWGB ==
  IF AsciiSlice(HeaderBuf, Len(COPYRIGHT_SWGB)) = COPYRIGHT_SWGB THEN "true" ELSE "false"

\* The header struct's numTables: the int32 behind copyright, fileVersion (4
\* bytes) and fileType (12 bytes).
HeaderNumTables ==
  readInt32LE(HeaderBuf, (IF ProbeSWGB = "true" THEN 60 ELSE 40) + 4 + 12)

onHeader(c) ==
  /\ Pending(c, "header")
  /\ \/ LET swgb == ProbeSWGB
            nt == HeaderNumTables
        IN  /\ isSWGB' = swgb
            /\ numTables' = nt
            /\ SetCall(c, IF nt < 0
                            \* Buffer.alloc of a negative size
                            THEN Throw(calls[c], FALSE, "RangeError")
                            ELSE [calls[c] EXCEPT
                                    !.pc = "tableInfo",
                                    !.fileOffset = @ + (IF swgb = "true" THEN HEADER_SIZE_SWGB
                                                        ELSE HEADER_SIZE_AOE),
                                    !.nreq = nt])
     \/ /\ SetCall(c, LoadDone(calls[c], "EIO", numTables, Tabs, fd))
        /\ UNCHANGED <<isSWGB, numTables>>
  /\ UNCHANGED <<disk, fpos, heap, tables, fd>>

\* The table objects the tables reader builds from the first k records of buf.
ParsedTables(buf, k) ==
  [i \in 1..k |-> [ext |-> parseTableType(readInt32LE(buf, TABLE_META_SIZE * (i - 1))),
                   offset |-> readInt32LE(buf, TABLE_META_SIZE * (i - 1) + 4),
                   numFiles |-> readInt32LE(buf, TABLE_META_SIZE * (i - 1) + 8),
                   files |-> <<>>]]

onTableInfo(c) ==
  /\ Pending(c, "tableInfo")
  /\ \/ IF numTables > calls[c].nreq
          \* the reader runs past the end of buf
          THEN /\ SetCall(c, Throw(calls[c], FALSE, "RangeError"))
               /\ UNCHANGED <<heap, tables>>
          ELSE LET buf == ReadBuf(TABLE_META_SIZE * calls[c].nreq, calls[c].fileOffset)
                   new == ParsedTables(buf, numTables)
                   totalFiles == SumSeq([i \in 1..Len(new) |-> new[i].numFiles])
               IN  /\ heap' = heap \o new
                   /\ tables' = [i \in 1..Len(new) |-> Len(heap) + i]
                   /\ SetCall(c, IF totalFiles < 0
                                   \* Buffer.alloc of a negative size
                                   THEN Throw(calls[c], FALSE, "RangeError")
                                   ELSE [calls[c] EXCEPT
                                           !.pc = "tables",
                                           !.fileOffset = @ + TABLE_META_SIZE * calls[c].nreq,
                                           !.nreq = totalFiles])
     \/ /\ SetCall(c, LoadDone(calls[c], "EIO", numTables, Tabs, fd))
        /\ UNCHANGED <<heap, tables>>
  /\ UNCHANGED <<disk, fpos, numTables, fd, isSWGB>>

\* The entries onTables pushes to the j-th table of drs.tables: the records
\* of buf from where the loop stands, buf holding the file directory's first
\* nreq records.
RecordsBefore(tabs, j) == SumSeq([i \in 1..(j - 1) |-> tabs[i].numFiles])

ReadEntries(buf, tabs, j, c) ==
  [i \in 1..tabs[j].numFiles |->
     LET offset == FILE_META_SIZE * (RecordsBefore(tabs, j) + i - 1)
     IN  [id |-> readInt32LE(buf, offset),
          offset |-> readInt32LE(buf, offset + 4),
          size |-> readInt32LE(buf, offset + 8),
          type |-> tabs[j].ext, buffer |-> <<>>, hasBuffer |-> FALSE, obj |-> c]]

\* heap after onTables' forEach.
HeapAfterTables(c) ==
  LET buf == ReadBuf(FILE_META_SIZE * calls[c].nreq, calls[c].fileOffset)
  IN  [o \in 1..Len(heap) |->
         IF \E j \in 1..Len(tables) : tables[j] = o
           THEN LET j == CHOOSE j \in 1..Len(tables) : tables[j] = o
                IN  [heap[o] EXCEPT !.files = @ \o ReadEntries(buf, Tabs, j, c)]
           ELSE heap[o]]

onTables(c) ==
  /\ Pending(c, "tables")
  /\ \/ IF RecordsBefore(Tabs, Len(Tabs) + 1) > calls[c].nreq
          \* buf.readInt32LE past the end of buf
          THEN /\ SetCall(c, Throw(calls[c], FALSE, "RangeError"))
               /\ UNCHANGED heap
          ELSE LET h == HeapAfterTables(c)
                   tabs == [i \in 1..Len(tables) |-> h[tables[i]]]
               IN  /\ heap' = h
                   /\ SetCall(c, LoadDone([calls[c] EXCEPT
                                             !.fileOffset = @ + FILE_META_SIZE * calls[c].nreq],
                                          "", numTables, tabs, fd))
     \/ /\ SetCall(c, LoadDone(calls[c], "EIO", numTables, Tabs, fd))
        /\ UNCHANGED heap
  /\ UNCHANGED <<disk, fpos, tables, numTables, fd, isSWGB>>

\* The position readFile's fs.read reads at: a null position means the
\* descriptor's own file position.
ReadPosition(call) == IF call.file.offset = Null THEN fpos[call.fd] ELSE call.file.offset

onFileRead(c) ==
  /\ Pending(c, "fileRead")
  /\ \/ LET call == calls[c]
            buf == ReadBuf(call.file.size, ReadPosition(call))
        IN  /\ SetCall(c, CbOk([call EXCEPT !.buf = buf,
                                            !.cls = Decoder(call.file.type, buf)]))
            /\ fpos' = IF call.file.offset = Null
                         THEN [fpos EXCEPT ![call.fd] =
                                 @ + BytesRead(call.file.size, ReadPosition(call))]
                         ELSE fpos
     \/ /\ SetCall(c, CbErr(calls[c], "EIO"))
        /\ UNCHANGED fpos
  /\ UNCHANGED <<disk, heap, tables, numTables, fd, isSWGB>>

\* onbuffer that also resolves the entry's offset (to the start of the file).
CompletedFileAtOffset(call, buffer) ==
  [call.file EXCEPT !.buffer = buffer, !.hasBuffer = TRUE, !.size = Len(buffer),
                    !.offset = 0]

\* onbuffer(null, buffer) of createFileBufferCallback: the completed entry.
CompletedFile(call, buffer) ==
  [call.file EXCEPT !.buffer = buffer, !.hasBuffer = TRUE, !.size = Len(buffer)]

\* The table object after onbuffer pushed the entry.
TableAfterPush(table, file) ==
  [table EXCEPT !.files = Append(@, file), !.numFiles = Len(table.files) + 1]

onbuffer(c, buffer) ==
  LET call == calls[c]
      file == CompletedFile(call, buffer)
  IN  /\ heap' = [heap EXCEPT ![call.table] = TableAfterPush(@, file)]
      /\ SetCall(c, IF call.op = "putFile"
                      THEN CbOk([call EXCEPT !.file = file])
                      \* createWriteStream's onfinish: emit('meta', file)
                      ELSE [call EXCEPT !.file = file, !.pc = "done",
                                        !.events = Append(@, "meta")])

\* putFile's setTimeout(.., 0) fires.
onTimeout(c) ==
  /\ Pending(c, "timer")
  /\ onbuffer(c, calls[c].chunks[1])
  /\ UNCHANGED <<disk, fpos, tables, numTables, fd, isSWGB>>

\* A chunk arrives: simple-concat's 'data' listener, or the to2 write function.
onData(c) ==
  /\ Pending(c, "drain")
  /\ calls[c].chunks # <<>>
  /\ SetCall(c, [calls[c] EXCEPT !.got = @ \o Head(calls[c].chunks),
                                 !.chunks = Tail(@)])
  /\ UNCHANGED <<disk, fpos, heap, tables, numTables, fd, isSWGB>>

\* The payload ends: simple-concat's 'end' listener, or the to2 flush function.
onEnd(c) ==
  /\ Pending(c, "drain")
  /\ calls[c].chunks = <<>>
  /\ onbuffer(c, calls[c].got)
  /\ UNCHANGED <<disk, fpos, tables, numTables, fd, isSWGB>>

\* The payload stream of putFile fails: onbuffer(err).
onStreamError(c) ==
  /\ Pending(c, "drain")
  /\ calls[c].op = "putFile"
  /\ SetCall(c, CbErr(calls[c], "EIO"))
  /\ UNCHANGED <<disk, fpos, heap, tables, numTables, fd, isSWGB>>

\* pump has moved the entry's bytes into the stream createReadStream returned.
onPumped(c) ==
  /\ Pending(c, "streaming")
  /\ SetCall(c, [calls[c] EXCEPT !.pc = "done", !.events = Append(@, "end")])
  /\ UNCHANGED <<disk, fpos, heap, tables, numTables, fd, isSWGB>>

(* -------------------------------- Next -------------------------------- *)
\* The callbacks of call c that the event loop may run.
Completion(c) ==
  \/ onOpen(c) \/ onHeader(c) \/ onTableInfo(c) \/ onTables(c) \/ onFileRead(c)
  \/ onTimeout(c) \/ onData(c) \/ onEnd(c) \/ onStreamError(c) \/ onPumped(c)

Complete == \E c \in 1..MaxCalls : Completion(c)

Next ==
  \/ read \/ readFile \/ createReadStream \/ putFile \/ createWriteStream
  \/ Complete

Spec == Init /\ [][Next]_vars

\* The event loop runs every pending fs callback, timer and stream event.
FairSpec == Spec /\ \A c \in 1..MaxCalls : WF_vars(Completion(c))

\* The table-tag codec on its own: archives of one table under every tag over
\* TagChars, and the directory loads that parse it.
TagChars == {0, 32, 97, 127}
TagInputs == {<<a, b, c, d>> : a \in TagChars, b \in TagChars, c \in TagChars, d \in TagChars}

TagArchive(str) ==
  MkArchive(FALSE, << [ext |-> str, files |-> << [id |-> 1, data |-> <<11>>] >>] >>)

CodecInit ==
  /\ disk \in {TagArchive(str) : str \in TagInputs}
  /\ fpos = <<>>
  /\ heap = <<>>
  /\ tables = <<>>
  /\ numTables = Null
  /\ fd = Null
  /\ isSWGB = "null"
  /\ calls = <<>>
  /\ crashed = FALSE

CodecNext ==
  \/ read
  \/ \E c \in 1..MaxCalls : onOpen(c) \/ onHeader(c) \/ onTableInfo(c) \/ onTables(c)

CodecSpec == CodecInit /\ [][CodecNext]_vars

\* The same handle over any file: also one that ends early, or whose bytes
\* are close to the magic strings.
AnyInit ==
  /\ disk \in Archives \cup ShortArchives \cup OddArchives
  /\ fpos = <<>>
  /\ heap = <<>>
  /\ tables = <<>>
  /\ numTables = Null
  /\ fd = Null
  /\ isSWGB = "null"
  /\ calls = <<>>
  /\ crashed = FALSE

AnySpec == AnyInit /\ [][Next]_vars

(* ============================== claims ================================ *)
IsPut(call) == call.op \in {"putFile", "createWriteStream"}

\* The step issues a new API call; it is calls'[Len(calls')].
Issued == Len(calls') = Len(calls) + 1

HasTable(tabs, type) == \E i \in 1..Len(tabs) : tabs[i].ext = type

\* Every entry of a table of the handle carries that table's tag.
EntriesMatchTable ==
  \A i \in 1..Len(Tabs) : \A k \in 1..Len(Tabs[i].files) :
    Tabs[i].files[k].type = Tabs[i].ext

\* C1: putFile and createWriteStream pick the table whose tag is `type`,
\* reusing an existing one (table count unchanged) and otherwise appending
\* exactly one new table with that tag; so every entry's type is the ext of
\* the table that holds it.
C1_PutUsesTableOfType ==
  /\ [][(Issued /\ IsPut(calls'[Len(calls')]) /\ calls'[Len(calls')].pc # "thrown") =>
          LET nc == calls'[Len(calls')]
          IN  /\ heap'[nc.table].ext = nc.type
              /\ IF HasTable(Tabs, nc.type) THEN tables' = tables
                 ELSE /\ Len(tables') = Len(tables) + 1
                      /\ SubSeq(tables', 1, Len(tables)) = tables
                      /\ tables'[Len(tables')] = nc.table]_vars
  /\ []EntriesMatchTable

\* C2: at most one directory load (fs.open, header, table directory and file
\* directory reads) is in flight on the handle at any time.
LoadsInFlight == {c \in 1..Len(calls) : calls[c].pc \in LoadPcs}

C2_AtMostOneLoadInFlight == Cardinality(LoadsInFlight) <= 1

\* The ids of the entries of the archive file.
DiskIds == {DiskFlat[k].id : k \in 1..Len(DiskFlat)}

\* Some fs call or payload stream has failed.
IOFailed == \E c \in 1..Len(calls) : calls[c].err = "EIO"

\* A putFile or createWriteStream call for this id was issued.
WasPut(id) == \E c \in 1..Len(calls) : IsPut(calls[c]) /\ calls[c].id = id

\* Call c is readFile(id, cb) for an id that no entry has.
ReadsMissingId(c) ==
  /\ c \in 1..Len(calls)
  /\ calls[c].op = "readFile"
  /\ calls[c].id \notin DiskIds
  /\ ~WasPut(calls[c].id)

\* cb was invoked exactly once, with the not-found error.
AnsweredNotFound(c) ==
  /\ c \in 1..Len(calls)
  /\ calls[c].cbs = 1
  /\ calls[c].err = "NotFound"

\* The id call c asks for has been added by a put call.
IdWasPut(c) == c \in 1..Len(calls) /\ WasPut(calls[c].id)

\* C3: on a well-formed archive (zero tables included) and without an I/O
\* failure, readFile(id, cb) for an id that no entry has eventually invokes
\* cb exactly once with a not-found error: it does not load the directory
\* again and again.  (Nothing is asked of a run in which an fs call fails,
\* the id is added meanwhile, or an uncaught exception ends the process.)
C3_MissingIdIsReported ==
  <>[](\A c \in 1..MaxCalls :
         ReadsMissingId(c) =>
           (AnsweredNotFound(c) \/ IOFailed \/ IdWasPut(c) \/ crashed))

\* The size bytes of the file at offset.
DiskBytes(offset, size) == [i \in 1..size |-> ByteAt(offset + i - 1)]

\* The bytes that make up an entry: its pending payload, else its range of
\* the file.
EntryBytes(file) ==
  IF file.hasBuffer THEN file.buffer ELSE DiskBytes(file.offset, file.size)

\* cb(null, ...) has been invoked for the call.
Succeeded(call) == call.pc = "done" /\ call.cbs = 1 /\ call.err = ""

\* C4: readFile(id, cb) does not care where the entry comes from: for a
\* write-pending entry (payload in memory, offset unresolved) it delivers that
\* payload, entry.size bytes, without a read of the file; for an entry of the
\* file it delivers the entry.size bytes at entry.offset.
C4_ReadFileServesEitherOrigin ==
  \A c \in 1..Len(calls) :
    LET call == calls[c]
    IN  (call.op = "readFile" /\ call.file # NoFile) =>
          /\ call.file.hasBuffer => call.pc \notin {"fileRead", "thrown", "crashed"}
          /\ Succeeded(call) =>
               /\ call.buf = EntryBytes(call.file)
               /\ Len(call.buf) = call.file.size

\* C5: createReadStream(id), for the entry its lookup yields, emits one
\* 'meta' event with that entry and then streams exactly entry.size bytes:
\* the pending payload if the entry has one, else the bytes
\* [offset, offset + size - 1] of the file.
C5_StreamServesEntry ==
  \A c \in 1..Len(calls) :
    LET call == calls[c]
    IN  (call.op = "createReadStream" /\ call.file # NoFile) =>
          /\ call.pc \in {"streaming", "done"}
          /\ call.events \in {<<"meta">>, <<"meta", "end">>}
          /\ call.buf = EntryBytes(call.file)
          /\ Len(call.buf) = call.file.size

\* The first entry with the id, tables in order and entries in order.
FirstEntry(tabs, id) ==
  LET fs == getFiles(tabs)
      hits == {k \in 1..Len(fs) : fs[k].id = id}
  IN  IF hits = {} THEN NoFile ELSE fs[CHOOSE k \in hits : \A j \in hits : k <= j]

\* C6: getFile(id) returns the first entry with that id (tables in order,
\* entries in order) and null when no entry has it; being a function of the
\* tables alone, it returns the same for the same tables.
C6_GetFileIsFirstMatch ==
  \A id \in Ids : getFile(Tabs, id) = [thrown |-> FALSE, file |-> FirstEntry(Tabs, id)]

\* Nothing is pending: no fs call, timer or stream.
Quiescent == \A c \in 1..Len(calls) : calls[c].pc \notin PendingPcs

\* Where the directories of the file end.
DirEnd ==
  headerSize(disk.isSwgb) + TABLE_META_SIZE * disk.numTables
    + FILE_META_SIZE * Len(DiskFlat)

\* Some call has read the directories to their end.
Loaded ==
  \E c \in 1..Len(calls) :
    calls[c].pc \notin LoadPcs \cup {"crashed"} /\ calls[c].fileOffset = DirEnd

NoPuts == \A c \in 1..Len(calls) : ~IsPut(calls[c])

\* C7: getSize() is headerSize + 12 * tables + 12 * entries + the entries'
\* sizes, headerSize 84 for the larger variant and 64 otherwise; so for a
\* loaded archive (nothing added, nothing pending) it is the length of the
\* file, and for one with zero tables of the base variant it is 64 with
\* getFileCount() = 0.
C7_SizeIsArchiveLength ==
  /\ getSize(Tabs, isSWGB) =
       (IF isSWGB = "true" THEN 84 ELSE 64) + 12 * Len(tables)
         + 12 * Len(getFiles(Tabs))
         + SumSeq([k \in 1..Len(getFiles(Tabs)) |-> getFiles(Tabs)[k].size])
  /\ (Loaded /\ Quiescent /\ NoPuts) =>
       /\ getSize(Tabs, isSWGB) = disk.length
       /\ (disk.numTables = 0 /\ ~disk.isSwgb) =>
            (getSize(Tabs, isSWGB) = 64 /\ getFileCount(Tabs) = 0)

\* The step invokes the callback of call c.
CbInvoked(c) ==
  /\ c \in 1..Len(calls')
  /\ calls'[c].cbs > (IF c <= Len(calls) THEN calls[c].cbs ELSE 0)

\* (An undefined numTables counts as agreeing with an empty tables.)
CountsAgree ==
  /\ numTables = Len(tables) \/ (numTables = Null /\ tables = <<>>)
  /\ \A i \in 1..Len(Tabs) : Tabs[i].numFiles = Len(Tabs[i].files)

\* C8: whenever a callback is delivered (here: one that reports success),
\* numTables is tables.length and every table's numFiles is the length of
\* its files, so getFileCount() is the sum of the numFiles.
C8_CountsAgreeAtCallbacks ==
  [][(\E c \in 1..MaxCalls : CbInvoked(c) /\ calls'[c].err = "") =>
        /\ CountsAgree'
        /\ getFileCount(Tabs') = SumSeq([i \in 1..Len(Tabs') |-> Tabs'[i].numFiles])]_vars

\* C9: putFile with data that is neither a Buffer nor a stream throws a
\* TypeError before it returns, never invokes cb and starts no I/O or timer.
C9_InvalidPayloadThrows ==
  \A c \in 1..Len(calls) :
    (calls[c].op = "putFile" /\ calls[c].kind = "invalid") =>
       /\ calls[c].pc = "thrown"
       /\ calls[c].err = "TypeError"
       /\ calls[c].cbs = 0

C9_Witness ==
  \E c \in 1..Len(calls) :
    calls[c].op = "putFile" /\ calls[c].kind = "invalid" /\ calls[c].pc = "thrown"

\* The whole payload of a put call: what has arrived and what is to come.
Payload(call) ==
  IF call.kind = "buffer" THEN call.chunks[1] ELSE call.got \o Flatten(call.chunks)

\* The entry of put call c is in some table object.
InSomeTable(c) ==
  \E o \in 1..Len(heap) : \E k \in 1..Len(heap[o].files) : heap[o].files[k].obj = c

\* C10: putFile with a Buffer or a stream signals completion asynchronously
\* and exactly once: never before putFile returns, for a stream only when it
\* is drained; until then the entry is in no table; at cb(null, file),
\* file.size is the length of the payload and the table's numFiles has grown
\* by exactly one.
C10_PutCompletesOnce ==
  [][/\ (Issued /\ calls'[Len(calls')].op = "putFile") => calls'[Len(calls')].cbs = 0
     /\ \A c \in 1..Len(calls) :
          (calls[c].op = "putFile" /\ CbInvoked(c)) =>
             /\ calls[c].cbs = 0
             /\ ~InSomeTable(c)
             /\ calls'[c].err = "" =>
                  /\ calls[c].kind = "stream" => calls[c].chunks = <<>>
                  /\ calls'[c].file.size = Len(Payload(calls[c]))
                  /\ heap'[calls[c].table].numFiles = heap[calls[c].table].numFiles + 1]_vars

\* The file ends before the directories its header and table directory
\* declare.
DirectoryCutShort == disk.length < PayloadStart(disk)

\* C11: read(cb) on a file shorter than the directory it declares (header,
\* table directory or file directory cut short) reports an error to cb and
\* never success.
C11_ShortFileIsAnError ==
  DirectoryCutShort =>
    \A c \in 1..Len(calls) :
      calls[c].op = "read" =>
        /\ ~Succeeded(calls[c])
        /\ calls[c].pc = "done" => (calls[c].cbs = 1 /\ calls[c].err # "")

\* Call c is a read() or a readFile() one of whose fs calls has failed.
LoadFailed(c) == calls[c].op \in {"read", "readFile"} /\ calls[c].err = "EIO"

\* C12: when fs.open or one of the three reads of a directory load fails,
\* the callback of read() runs exactly once with that error and no later
\* stage of the load is issued; a readFile that started the load hands the
\* error to its own callback exactly once and does not retry.
C12_LoadErrorReportedOnce ==
  /\ [](\A c \in 1..Len(calls) :
          LoadFailed(c) => (calls[c].pc = "done" /\ calls[c].cbs = 1))
  /\ [][\A c \in 1..Len(calls) :
          /\ LoadFailed(c) => calls'[c] = calls[c]
          /\ (calls[c].pc \in LoadPcs /\ LoadFailed(c)') =>
                /\ calls'[c].cbs = calls[c].cbs + 1
                /\ UNCHANGED <<fpos, heap, tables, numTables, fd, isSWGB>>]_vars

C12_Witness ==
  /\ \E c \in 1..Len(calls) :
        calls[c].op = "readFile" /\ LoadFailed(c) /\ calls[c].file = NoFile
  /\ \E c \in 1..Len(calls) :
        calls[c].op = "read" /\ LoadFailed(c) /\ calls[c].fileOffset > 0

IsLookup(call) == call.op \in {"readFile", "createReadStream"}

\* C13: constructing the handle does no I/O (fd stays null); a readFile or
\* createReadStream issued while the directory of the file has not been
\* loaded, also after putFile calls, starts a directory load before it looks
\* the id up; once a load has succeeded, later readFile and createReadStream
\* calls do not load the directory again.
C13_LoadsOnceBeforeLookup ==
  /\ [](calls = <<>> => (fd = Null /\ fpos = <<>>))
  /\ [][(Issued /\ IsLookup(calls'[Len(calls')])) =>
          (calls'[Len(calls')].pc \in LoadPcs <=> ~Loaded)]_vars

\* The first bytes of the file are, byte for byte, the magic string.
HasMagic == SubSeq(HeaderBuf, 1, Len(COPYRIGHT_SWGB)) = COPYRIGHT_SWGB

\* C14: a load takes the archive for the larger variant (isSWGB true, 84-byte
\* header with a 60-byte copyright field, table directory read from byte 84)
\* exactly when the probed copyright bytes equal the magic string, and for
\* the base variant (64-byte header, 40-byte copyright field, table directory
\* read from byte 64) on any other content.
C14_VariantByMagic ==
  /\ isSWGB # "null" => isSWGB = (IF HasMagic THEN "true" ELSE "false")
  /\ \A c \in 1..Len(calls) :
        calls[c].pc = "tableInfo" =>
          /\ calls[c].fileOffset = (IF HasMagic THEN 84 ELSE 64)
          /\ calls[c].nreq = readInt32LE(HeaderBuf, (IF HasMagic THEN 60 ELSE 40) + 16)

\* The decoder the tag and the first bytes call for.
Classify(type, buf) ==
  IF type = TagSlp THEN "SLPFile"
  ELSE IF type = TagWav THEN "WAVFile"
  ELSE IF type = TagBina /\ Len(buf) >= 8 /\ SubSeq(buf, 1, 8) = JascPal THEN "PaletteFile"
  ELSE "DRSFile"

\* C15: a successful readFile constructs exactly one decoder out of SLPFile,
\* WAVFile, PaletteFile and DRSFile, from the bytes read and the entry: SLPFile
\* and WAVFile by the sprite and audio tag alone, PaletteFile only for the
\* generic-binary tag with 'JASC-PAL' as the first 8 bytes, DRSFile for
\* everything else.
C15_DecoderByTagAndSniff ==
  \A c \in 1..Len(calls) :
    (calls[c].op = "readFile" /\ Succeeded(calls[c])) =>
       /\ calls[c].cls \in {"SLPFile", "WAVFile", "PaletteFile", "DRSFile"}
       /\ calls[c].cls = Classify(calls[c].file.type, calls[c].buf)

\* The 32-bit value whose bytes are the four characters, the first one in
\* the most significant byte.
Pack(str) == str[1] * 16777216 + str[2] * 65536 + str[3] * 256 + str[4]

\* C16: the table-tag codec is a pair of mutual inverses on 4-character ASCII
\* strings and on the 32-bit values whose four bytes are ASCII, the first
\* character in the most significant byte; so the tag a load parses is the
\* tag the archive was written with.
C16_TagCodecRoundTrip ==
  /\ \A t \in 1..Len(disk.tables) :
        LET str == disk.tables[t].tag
        IN  /\ serializeTableType(str) = Pack(str)
            /\ parseTableType(serializeTableType(str)) = str
            /\ serializeTableType(parseTableType(Pack(str))) = Pack(str)
  /\ (tables # <<>> /\ NoPuts) =>
        \A t \in 1..Len(tables) : Tabs[t].ext = disk.tables[t].tag

C16_Witness ==
  /\ tables # <<>>
  /\ Tabs[1].ext = <<127, 0, 32, 97>>
  /\ Tabs[1].files # <<>>

\* The entry is write-pending: made by putFile / createWriteStream, payload
\* in memory, offset unresolved.
WritePending(file) ==
  /\ IsPut(calls[file.obj])
  /\ file.hasBuffer
  /\ file.offset = Null

\* The entry is disk-resident: made by a directory load, with an offset in
\* the file and no payload in memory.
DiskResident(file) ==
  /\ ~IsPut(calls[file.obj])
  /\ ~file.hasBuffer
  /\ file.offset # Null

\* C17: every entry held in a table has exactly one authoritative source of
\* its bytes: an entry of a directory load has an offset in the file and no
\* payload in memory, an entry of putFile / createWriteStream has its payload
\* in memory and a null offset; no operation assigns an offset to a
\* write-pending entry or a payload to a disk-resident one.
C17_OneDataSource ==
  /\ [](\A o \in 1..Len(heap) : \A k \in 1..Len(heap[o].files) :
          LET file == heap[o].files[k]
          IN  (WritePending(file) /\ ~DiskResident(file))
                \/ (DiskResident(file) /\ ~WritePending(file)))
  /\ [][\A o \in 1..Len(heap) : \A k \in 1..Len(heap[o].files) :
          heap'[o].files[k] = heap[o].files[k]]_vars

C17_Witness ==
  /\ \E k \in 1..Len(getFiles(Tabs)) : WritePending(getFiles(Tabs)[k])
  /\ \E k \in 1..Len(getFiles(Tabs)) : DiskResident(getFiles(Tabs)[k])

\* C18: a putFile that fails with the invalid-payload TypeError leaves the
\* archive as it was: tables, numTables, getFileCount() and getSize() are the
\* same after the throw as before the call, whatever the type, also one for
\* which no table exists yet.
C18_FailedPutChangesNothing ==
  [][(Issued /\ calls'[Len(calls')].op = "putFile" /\ calls'[Len(calls')].pc = "thrown") =>
       /\ Tabs' = Tabs
       /\ numTables' = numTables
       /\ getFileCount(Tabs') = getFileCount(Tabs)
       /\ getSize(Tabs', isSWGB') = getSize(Tabs, isSWGB)]_vars

\* The completion of put call c has been reported: cb(null, file), or the
\* 'meta' event of createWriteStream's stream.
PutReported(c) == IsPut(calls[c]) /\ calls[c].pc = "done" /\ calls[c].err = ""

\* getFiles() contains the entry of put call c.
InGetFiles(c) == \E k \in 1..Len(getFiles(Tabs)) : getFiles(Tabs)[k].obj = c

\* C19: an entry registered through putFile / createWriteStream is never lost
\* to a directory load: from the report of its completion on it is in
\* getFiles() in every state, also after a read() (explicit or implicit) has
\* completed, and also when its put was started before a load completed.
C19_PutEntriesSurviveLoads ==
  \A c \in 1..Len(calls) : PutReported(c) => InGetFiles(c)

\* Call c is createReadStream(id) for an id that no entry has, and its
\* lookup has run.
StreamsMissingId(c) ==
  /\ calls[c].op = "createReadStream"
  /\ calls[c].id \notin DiskIds
  /\ ~WasPut(calls[c].id)
  /\ calls[c].pc \notin LoadPcs

\* C20: createReadStream(id) for an id that no entry has ends in a clean
\* error: the stream emits exactly one 'error' event, no 'meta' event and no
\* data, no read of the file is started and no exception leaves the load
\* callback.
C20_MissingIdStreamsError ==
  \A c \in 1..Len(calls) :
    StreamsMissingId(c) =>
      /\ calls[c].pc = "done"
      /\ calls[c].events = <<"error">>
      /\ calls[c].buf = <<>>

====
